---------------------------- MODULE Spec2Model ----------------------------
(***************************************************************************)
(* A model of the Lighthouse report renderer (v2): the DOM helper, the     *)
(* recursive details renderer and the report renderer with its single      *)
(* top-level try/catch.                                                    *)
(*                                                                         *)
(* JavaScript values are modelled as follows.  A string used as text is a  *)
(* TLA+ string; text content of an element is the sequence of the string   *)
(* pieces that were concatenated to make it.  A value whose JavaScript     *)
(* type matters (a card's fields) is a tagged record, see JSStr, JSNum and *)
(* JSUndefined.  An object is a record; reading a property the object      *)
(* lacks yields JSUndefined (Get).  A call either returns a value or       *)
(* throws: see Return and Throw.                                           *)
(***************************************************************************)
EXTENDS Integers, Sequences, FiniteSets, TLC

VARIABLES
  details,     \* the details document handed to DetailsRenderer.render
  rendered,    \* what that call produced: a returned element or a thrown error
  container,   \* the children of the container element handed to renderReport
  returned,    \* the element the most recent renderReport call returned
  lastReport,  \* the report object of the most recent renderReport call
  attachThrew, \* whether ReportFeatures.attach threw in the most recent call
  calls,       \* number of renderReport calls made so far
  templates,   \* the template selectors the document provides
  arg,         \* the argument of the function a call is made on
  outcome,     \* what that call produced: a returned value or a thrown error
  viewer,      \* the fields of the LighthouseViewerReport and of its page
  last,        \* the event the viewer handled last, with its input
  events,      \* number of events the viewer has handled so far
  displayedShared, \* whether the report the viewer displays is already shared
  superseded   \* how many of the gists being fetched, the oldest ones, were
               \* asked for before the load that was started last

vars == <<details, rendered, container, returned, lastReport, attachThrew,
          calls, templates, arg, outcome, viewer, last, events,
          displayedShared, superseded>>

detailsVars == <<details, rendered>>
reportVars == <<container, returned, lastReport, attachThrew, calls, templates>>
callVars == <<arg, outcome>>
viewerVars == <<viewer, last, events, displayedShared, superseded>>

(***************************************************************************)
(* Bounds of the model.                                                    *)
(***************************************************************************)
\* Largest number of nodes (reached through items) of a details document.
MaxNodes == 4
\* Largest number of items of a cards node rendered on its own.
MaxCards == 2
\* Largest number of categories and audits, together, of a report.
MaxReportNodes == 3
\* Largest number of renderReport calls on the container.
MaxCalls == 2
\* Largest score, in tenths of a point, of the audits and categories scored.
MaxScore == 1000
\* Largest number of tokens a markdown text is made of.
MaxTokens == 3
\* Largest major and minor numbers of the versions compared.
MaxMajor == 2
MaxMinor == 10
\* Largest number of events the viewer handles.
MaxEvents == 3

None == [none |-> TRUE]

(***************************************************************************)
(* JavaScript values.                                                      *)
(***************************************************************************)
JSUndefined == [t |-> "undefined"]
JSStr(s) == [t |-> "string", s |-> s]
JSNum(n) == [t |-> "number", n |-> n]

\* obj[key] in JavaScript: undefined when the object has no such property.
Get(obj, key) == IF key \in DOMAIN obj THEN obj[key] ELSE JSUndefined

\* ToBoolean, as applied by `if (x)`: undefined, "" and 0 are falsy, any
\* object (here: a record that is no tagged primitive) is truthy.
Truthy(v) ==
  IF "t" \in DOMAIN v
    THEN CASE v.t = "undefined" -> FALSE
           [] v.t = "string" -> v.s # ""
           [] v.t = "number" -> v.n # 0
    ELSE TRUE

\* Decimal digits of a natural number, most significant first.
RECURSIVE Digits(_)
Digits(n) ==
  LET d == <<"0", "1", "2", "3", "4", "5", "6", "7", "8", "9">>
  IN IF n < 10 THEN <<d[n + 1]>> ELSE Digits(n \div 10) \o <<d[(n % 10) + 1]>>

\* String(v) of a tagged primitive, as a sequence of string pieces.
JSToString(v) ==
  CASE v.t = "undefined" -> <<"undefined">>
    [] v.t = "string" -> <<v.s>>
    [] v.t = "number" -> Digits(v.n)

(***************************************************************************)
(* Completion of a call: a returned value or a thrown error.               *)
(***************************************************************************)
Return(v) == [thrown |-> FALSE, value |-> v]
ThrowError(name, msg) == [thrown |-> TRUE, error |-> [name |-> name, message |-> msg]]
Throw(msg) == ThrowError("Error", msg)

\* The rest F of a computation after a call that completed as c: skipped
\* when the call threw, the error propagating instead.
Then(c, F(_)) == IF c.thrown THEN c ELSE F(c.value)

(***************************************************************************)
(* DOM helper (dom.js) and the element operations the renderers use.       *)
(* An element is a record of its tag, its set of classes, its attributes,  *)
(* its own text content and its child elements.                            *)
(***************************************************************************)
NoAttrs == [k \in {} |-> JSUndefined]

\* DOM.createElement(name, className, attrs): the class is set when given,
\* and every attribute whose value is not undefined is set (as a string).
createElementAllAttrs(name, className, attrs) ==
  [tag |-> name,
   cls |-> IF className # "" THEN {className} ELSE {},
   attrs |-> [k \in DOMAIN attrs |-> JSToString(attrs[k])],
   text |-> << >>,
   children |-> << >>]

createElement(name, className, attrs) ==
  [tag |-> name,
   cls |-> IF className # "" THEN {className} ELSE {},
   attrs |-> [k \in {a \in DOMAIN attrs : attrs[a] # JSUndefined}
                |-> JSToString(attrs[k])],
   text |-> << >>,
   children |-> << >>]

\* parent.appendChild(child): the child becomes the last child; appending
\* a DocumentFragment appends the fragment's children instead.
Appended(child) ==
  IF child.tag = "#document-fragment" THEN child.children ELSE <<child>>

appendChildFirst(parent, child) ==
  [parent EXCEPT !.children = Appended(child) \o @]

appendChild(parent, child) ==
  [parent EXCEPT !.children = @ \o Appended(child)]

\* element.textContent = pieces
setTextContent(element, pieces) == [element EXCEPT !.text = pieces]

\* document.createTextNode(pieces)
createTextNode(pieces) ==
  [tag |-> "#text", cls |-> {}, attrs |-> NoAttrs, text |-> pieces,
   children |-> << >>]

\* The element at a path (a sequence of child indexes) below an element, and
\* the element with the one at a path replaced.
RECURSIVE At(_, _), ReplaceAt(_, _, _), DescendantPaths(_)
At(el, path) ==
  IF path = << >> THEN el ELSE At(el.children[Head(path)], Tail(path))
ReplaceAt(el, path, new) ==
  IF path = << >> THEN new
  ELSE [el EXCEPT !.children[Head(path)] = ReplaceAt(@, Tail(path), new)]

\* The paths of the descendants of an element, in document order.
RECURSIVE PathsFrom(_, _)
PathsFrom(el, i) ==
  IF i > Len(el.children) THEN << >>
  ELSE LET below == DescendantPaths(el.children[i])
       IN <<<<i>>>> \o [k \in 1..Len(below) |-> <<i>> \o below[k]]
                   \o PathsFrom(el, i + 1)
DescendantPaths(el) == PathsFrom(el, 1)

\* element.querySelector('.cls'): the path of the first descendant, in
\* document order, that carries the class.
HasClassAt(el, cls, path) == cls \in At(el, path).cls
querySelector(el, cls) ==
  LET paths == DescendantPaths(el)
      hits == {k \in 1..Len(paths) : HasClassAt(el, cls, paths[k])}
  IN paths[CHOOSE k \in hits : \A h \in hits : k <= h]

\* The templates of the report's HTML document, by selector; each is the
\* content of a <template>: a DocumentFragment.
El(tag, cls, children) ==
  [tag |-> tag, cls |-> cls, attrs |-> NoAttrs, text |-> << >>,
   children |-> children]

TemplateSelectors ==
  {"#tmpl-lighthouse-audit-score", "#tmpl-lighthouse-category-score",
   "#tmpl-lighthouse-heading", "#tmpl-lighthouse-env__items",
   "#tmpl-lighthouse-footer"}

TemplateContent(selector) ==
  CASE selector = "#tmpl-lighthouse-audit-score" ->
         El("#document-fragment", {}, <<
           El("div", {"lighthouse-score"}, <<
             El("div", {"lighthouse-score__value"}, << >>),
             El("details", {"lighthouse-score__header"}, <<
               El("summary", {}, <<El("span", {"lighthouse-score__title"}, << >>)>>),
               El("div", {"lighthouse-score__description"}, << >>)>>)>>)>>)
    [] selector = "#tmpl-lighthouse-category-score" ->
         El("#document-fragment", {}, <<
           El("div", {"lighthouse-score", "lighthouse-score__category"}, <<
             El("div", {"lighthouse-score__value"}, << >>),
             El("div", {"lighthouse-score__header"}, <<
               El("div", {"lighthouse-score__title"}, << >>),
               El("div", {"lighthouse-score__description"}, << >>)>>)>>)>>)
    [] selector = "#tmpl-lighthouse-heading" ->
         El("#document-fragment", {}, <<
           El("div", {"lighthouse-heading"}, <<
             El("a", {"lighthouse-metadata__url"}, << >>),
             El("span", {"lighthouse-config__timestamp"}, << >>),
             El("ul", {"lighthouse-env__items"}, << >>)>>)>>)
    [] selector = "#tmpl-lighthouse-env__items" ->
         El("#document-fragment", {}, <<
           El("li", {"lighthouse-env__item"}, <<
             El("span", {"lighthouse-env__name"}, << >>),
             El("span", {"lighthouse-env__enabled"}, << >>),
             El("span", {"lighthouse-env__description"}, << >>)>>)>>)
    [] selector = "#tmpl-lighthouse-footer" ->
         El("#document-fragment", {}, <<
           El("footer", {"lighthouse-footer"}, <<
             El("span", {"lighthouse-footer__version"}, << >>),
             El("span", {"lighthouse-footer__timestamp"}, << >>)>>)>>)

\* DOM.cloneTemplate(selector): a deep clone of the template's content, or
\* an error when the document has no such template.
cloneTemplate(selector) ==
  IF selector \in templates
    THEN Return(TemplateContent(selector))
    ELSE Throw(<<"Template not found: template", selector>>)

(***************************************************************************)
(* Details renderer (details-renderer.js).                                 *)
(***************************************************************************)
RECURSIVE render(_), renderItems(_, _)

\* The default arm of render's switch.
unknownTypeIgnored(node) == Return(createElement("div", "", NoAttrs))

unknownType(node) == Throw(<<"Unknown type: ", node.type>>)

_renderText(text) ==
  Return(setTextContent(createElement("div", "lighthouse-text", NoAttrs),
                        <<text.text>>))

\* for (const item of items) element.appendChild(this.render(item));
\* the first item whose rendering throws ends the loop with that error.
renderItems(element, items) ==
  IF items = << >>
    THEN Return(element)
    ELSE Then(render(Head(items)),
              LAMBDA child : renderItems(appendChild(element, child), Tail(items)))

_renderBlock(block) ==
  renderItems(createElement("div", "lighthouse-block", NoAttrs), block.items)

\* The summary element of a list's header.
ListSummary(header) ==
  setTextContent(createElement("summary", "lighthouse-list__header", NoAttrs),
                 <<header.text>>)

_renderListHeaderLast(list) ==
  Then(renderItems(createElement("div", "lighthouse-list__items", NoAttrs),
                   list.items),
       LAMBDA items :
         Return(IF Truthy(Get(list, "header"))
                  THEN appendChild(
                         appendChild(createElement("details", "lighthouse-list", NoAttrs),
                                     items),
                         ListSummary(list.header))
                  ELSE appendChild(createElement("details", "lighthouse-list", NoAttrs),
                                   items)))

_renderList(list) ==
  Then(renderItems(createElement("div", "lighthouse-list__items", NoAttrs),
                   list.items),
       LAMBDA items :
         Return(appendChild(
                  IF Truthy(Get(list, "header"))
                    THEN appendChild(createElement("details", "lighthouse-list", NoAttrs),
                                     ListSummary(list.header))
                    ELSE createElement("details", "lighthouse-list", NoAttrs),
                  items)))

\* One iteration of the loop of _renderCards: the card of one item.
renderCard(item) ==
  LET card == createElement("div", "lighthouse-scorecard",
                            [title |-> Get(item, "snippet")])
      titleEl == createElement("div", "lighthouse-scorecard__title", NoAttrs)
      valueEl == createElement("div", "lighthouse-scorecard__value", NoAttrs)
      targetEl == createElement("div", "lighthouse-scorecard__target", NoAttrs)
      c1 == appendChild(card, setTextContent(titleEl, JSToString(item.title)))
      c2 == appendChild(c1, setTextContent(valueEl, JSToString(item.value)))
  IN IF Truthy(Get(item, "target"))
       THEN appendChild(c2, setTextContent(targetEl,
                          <<"target: ">> \o JSToString(item.target)))
       ELSE c2

RECURSIVE renderCardItems(_, _)
renderCardItems(cardsParent, items) ==
  IF items = << >>
    THEN cardsParent
    ELSE renderCardItems(appendChild(cardsParent, renderCard(Head(items))),
                         Tail(items))

_renderCards(cards) ==
  LET element == createElement("details", "lighthouse-details", NoAttrs)
      withHeader == IF Truthy(Get(cards, "header"))
                      THEN appendChild(element,
                             setTextContent(createElement("summary", "", NoAttrs),
                                            <<Get(cards, "header").text>>))
                      ELSE element
      cardsParent == renderCardItems(
                       createElement("div", "lighthouse-scorecards", NoAttrs),
                       cards.items)
  IN Return(appendChild(withHeader, cardsParent))

render(node) ==
  CASE node.type = "text" -> _renderText(node)
    [] node.type = "block" -> _renderBlock(node)
    [] node.type = "cards" -> _renderCards(node)
    [] node.type = "list" -> _renderList(node)
    [] OTHER -> unknownType(node)

(***************************************************************************)
(* DOM.createSpanFromMarkdown (dom.js).  The text is a sequence of         *)
(* characters.                                                             *)
(***************************************************************************)
LineTerminators == {"\n", "\r"}

StartsWith(text, i, pat) ==
  /\ i + Len(pat) - 1 <= Len(text)
  /\ \A k \in 1..Len(pat) : text[i + k - 1] = pat[k]

\* Length of the match of https?:\/\/ at position i (0: no match).
SchemeLength(text, i) ==
  IF StartsWith(text, i, <<"h", "t", "t", "p", "s", ":", "/", "/">>) THEN 8
  ELSE IF StartsWith(text, i, <<"h", "t", "t", "p", ":", "/", "/">>) THEN 7
  ELSE 0

NoLineTerminator(text, from, to) ==
  \A k \in from..to : text[k] \notin LineTerminators

\* The positions c of a ')' that ends a match of \((https?:\/\/.*?)\) whose
\* '(' is at position o.
Closings(text, o) ==
  {c \in (o + 1 + SchemeLength(text, o + 1))..Len(text) :
     /\ SchemeLength(text, o + 1) > 0
     /\ text[c] = ")"
     /\ NoLineTerminator(text, o + 1, c - 1)}

\* The positions j of a ']' that can end the label of a match of the link
\* pattern starting with the '[' at position i.
LabelEnds(text, i) ==
  {j \in (i + 1)..(Len(text) - 1) :
     /\ text[i] = "["
     /\ text[j] = "]"
     /\ text[j + 1] = "("
     /\ NoLineTerminator(text, i + 1, j - 1)
     /\ Closings(text, j + 1) # {}}

Least(S) == CHOOSE x \in S : \A y \in S : x <= y

\* text.split(/\[(.*?)\]\((https?:\/\/.*?)\)/g) from position pos on: the
\* text before each match followed by the match's two groups, then the rest.
RECURSIVE SplitOnLinks(_, _)
SplitOnLinks(text, pos) ==
  LET starts == {i \in pos..Len(text) : LabelEnds(text, i) # {}}
  IN IF starts = {}
       THEN <<SubSeq(text, pos, Len(text))>>
       ELSE LET i == Least(starts)
                j == Least(LabelEnds(text, i))
                c == Least(Closings(text, j + 1))
            IN <<SubSeq(text, pos, i - 1),
                 SubSeq(text, i + 1, j - 1),
                 SubSeq(text, j + 2, c - 1)>> \o SplitOnLinks(text, c + 1)

\* The anchor of one link; href holds the text of the URL.
Anchor(linkText, linkHref) ==
  [tag |-> "a", cls |-> {},
   attrs |-> [rel |-> <<"noopener">>, target |-> <<"_blank">>, href |-> linkHref],
   text |-> linkText, children |-> << >>]

\* The while loop of createSpanFromMarkdown over the parts of the split.
RECURSIVE AppendParts(_, _)
AppendParts(element, parts) ==
  IF parts = << >> THEN element
  ELSE LET withText == appendChild(element, createTextNode(parts[1]))
           hasLink == Len(parts) >= 3 /\ parts[2] # << >> /\ parts[3] # << >>
       IN AppendParts(
            IF hasLink THEN appendChild(withText, Anchor(parts[2], parts[3]))
            ELSE withText,
            SubSeq(parts, 4, Len(parts)))

createSpanFromMarkdown(text) ==
  AppendParts(createElement("span", "", NoAttrs), SplitOnLinks(text, 1))

(***************************************************************************)
(* Report renderer (report-renderer.js).  Scores are held in tenths of a   *)
(* point, so that 74.9 is 749.                                             *)
(***************************************************************************)
PassMinScore == 750
AverageMinScore == 450

calculateRatingExclusive(score) ==
  IF score > PassMinScore THEN "pass"
  ELSE IF score > AverageMinScore THEN "average"
  ELSE "fail"

calculateRating(score) ==
  IF score >= PassMinScore THEN "pass"
  ELSE IF score >= AverageMinScore THEN "average"
  ELSE "fail"

\* number.toLocaleString(undefined, {maximumFractionDigits: 1}) of a score
\* of at most one fractional digit.
formatNumber(score) ==
  Digits(score \div 10)
    \o (IF score % 10 = 0 THEN << >> ELSE <<".">> \o Digits(score % 10))

\* Math.round, in tenths.
MathRound(score) == ((score + 5) \div 10) * 10

\* formatDateTime(date): formatting the invalid date of an undefined
\* argument throws.
formatDateTime(date) ==
  IF date = JSUndefined
    THEN ThrowError("RangeError", <<"Invalid time value">>)
    ELSE Return(<<"en-US", date.s>>)

\* `lighthouse-score__value--${qualifier}`
ScoreValueClass(qualifier) ==
  CASE qualifier = "pass" -> "lighthouse-score__value--pass"
    [] qualifier = "average" -> "lighthouse-score__value--average"
    [] qualifier = "fail" -> "lighthouse-score__value--fail"
    [] qualifier = "numeric" -> "lighthouse-score__value--numeric"
    [] qualifier = "binary" -> "lighthouse-score__value--binary"

\* Sets the text content of the first descendant carrying a class.
SetTextAt(el, path, pieces) ==
  ReplaceAt(el, path, setTextContent(At(el, path), pieces))
SetTextOf(el, cls, pieces) == SetTextAt(el, querySelector(el, cls), pieces)

\* Appends a child to the first descendant carrying a class.
AppendAt(el, path, child) == ReplaceAt(el, path, appendChild(At(el, path), child))
AppendTo(el, cls, child) == AppendAt(el, querySelector(el, cls), child)

\* valueEl.textContent = formatNumber(score); valueEl.classList.add(...)
FillValueAt(el, path, score, scoringMode) ==
  ReplaceAt(el, path,
    [setTextContent(At(el, path), formatNumber(score)) EXCEPT
       !.cls = @ \cup {ScoreValueClass(calculateRating(score)),
                       ScoreValueClass(scoringMode)}])

_populateScore(element, score, scoringMode, title, description) ==
  AppendTo(
    SetTextOf(
      FillValueAt(element, querySelector(element, "lighthouse-score__value"),
                  score, scoringMode),
      "lighthouse-score__title", title),
    "lighthouse-score__description", createSpanFromMarkdown(description))

\* A TypeError of reading a property of undefined.
ThrowTypeError(property) ==
  ThrowError("TypeError", <<"Cannot read property '", property, "' of undefined">>)

\* The title of an audit: its description, its display value and its
\* optimal value, where given.
AuditTitle(result) ==
  <<result.description>>
    \o (IF "displayValue" \in DOMAIN result /\ result.displayValue # ""
          THEN <<":  ", result.displayValue>> ELSE << >>)
    \o (IF "optimalValue" \in DOMAIN result /\ result.optimalValue # ""
          THEN <<" (target: ", result.optimalValue, ")">> ELSE << >>)

\* header.open = audit.score < 100
SetOpenAt(el, path, open) ==
  ReplaceAt(el, path, [At(el, path) EXCEPT !.attrs = @ @@ [open |-> open]])

_renderAuditScore(audit) ==
  Then(cloneTemplate("#tmpl-lighthouse-audit-score"),
       LAMBDA tmpl :
         IF "result" \notin DOMAIN audit THEN ThrowTypeError("scoringMode")
         ELSE Then(
                IF "details" \in DOMAIN audit.result
                  THEN Then(render(audit.result.details),
                            LAMBDA rendered_ :
                              Return(AppendTo(
                                SetOpenAt(tmpl,
                                          querySelector(tmpl, "lighthouse-score__header"),
                                          audit.score < 1000),
                                "lighthouse-score__header", rendered_)))
                  ELSE Return(SetOpenAt(tmpl,
                                        querySelector(tmpl, "lighthouse-score__header"),
                                        audit.score < 1000)),
                LAMBDA filled :
                  Return(_populateScore(filled, audit.score, audit.result.scoringMode,
                                        AuditTitle(audit.result),
                                        audit.result.helpText))))

_renderCategoryScore(category) ==
  Then(cloneTemplate("#tmpl-lighthouse-category-score"),
       LAMBDA tmpl :
         Return(_populateScore(tmpl, MathRound(category.score), "numeric",
                               <<category.name>>, category.description)))

\* element.textContent = String(e.stack): the stack of an error starts with
\* its name and message (the frames after them are left out).
_renderException(e) ==
  setTextContent(createElement("div", "lighthouse-exception", NoAttrs),
                 <<e.name, ": ">> \o e.message)

_renderAudit(audit) ==
  Then(_renderAuditScore(audit),
       LAMBDA score :
         Return(appendChild(createElement("div", "lighthouse-audit", NoAttrs), score)))

\* for (const audit of category.audits) element.appendChild(_renderAudit(audit))
RECURSIVE renderAudits(_, _)
renderAudits(element, audits) ==
  IF audits = << >> THEN Return(element)
  ELSE Then(_renderAudit(Head(audits)),
            LAMBDA audit : renderAudits(appendChild(element, audit), Tail(audits)))

_renderCategory(category) ==
  Then(_renderCategoryScore(category),
       LAMBDA score :
         renderAudits(
           appendChild(createElement("div", "lighthouse-category", NoAttrs), score),
           category.audits))

\* The cloned item of one runtime setting, filled in.
FillEnvItem(item, runtime) ==
  SetTextOf(
    SetTextOf(
      SetTextOf(item, "lighthouse-env__name", <<runtime.name>>),
      "lighthouse-env__description", <<runtime.description>>),
    "lighthouse-env__enabled", <<IF runtime.enabled THEN "Enabled" ELSE "Disabled">>)

\* report.runtimeConfig.environment.forEach(runtime => ...): one cloned
\* item per runtime setting, appended to the environment list.
RECURSIVE renderEnvItems(_, _)
renderEnvItems(header, environment) ==
  IF environment = << >> THEN Return(header)
  ELSE Then(cloneTemplate("#tmpl-lighthouse-env__items"),
            LAMBDA item :
              renderEnvItems(
                AppendTo(header, "lighthouse-env__items",
                         FillEnvItem(item, Head(environment))),
                Tail(environment)))

\* url.href = report.url; url.textContent = report.url
SetUrlAt(el, path, url) ==
  ReplaceAt(el, path, [At(el, path) EXCEPT !.attrs = @ @@ [href |-> <<url>>],
                                           !.text = <<url>>])

_renderReportHeader(report) ==
  Then(cloneTemplate("#tmpl-lighthouse-heading"),
       LAMBDA header :
         Then(formatDateTime(Get(report, "generatedTime")),
              LAMBDA time :
                IF "runtimeConfig" \notin DOMAIN report
                  THEN ThrowTypeError("environment")
                  ELSE renderEnvItems(
                         SetUrlAt(
                           SetTextOf(header, "lighthouse-config__timestamp", time),
                           querySelector(header, "lighthouse-metadata__url"),
                           report.url),
                         report.runtimeConfig.environment)))

_renderReportFooter(report) ==
  Then(cloneTemplate("#tmpl-lighthouse-footer"),
       LAMBDA footer :
         Then(formatDateTime(Get(report, "generatedTime")),
              LAMBDA time :
                Return(SetTextOf(
                         SetTextOf(footer, "lighthouse-footer__version",
                                   <<report.lighthouseVersion>>),
                         "lighthouse-footer__timestamp", time))))

\* for (const category of report.reportCategories)
\*   categories.appendChild(this._renderCategory(category));
RECURSIVE renderCategories(_, _)
renderCategories(categories, reportCategories) ==
  IF reportCategories = << >> THEN Return(categories)
  ELSE Then(_renderCategory(Head(reportCategories)),
            LAMBDA category :
              renderCategories(appendChild(categories, category),
                               Tail(reportCategories)))

\* Reading report.reportCategories for the loop: the property may be a
\* getter that throws (new Error()), and iterating undefined is a TypeError.
ReadReportCategories(report) ==
  IF "reportCategoriesGetter" \in DOMAIN report
    THEN Throw(<< >>)
    ELSE IF "reportCategories" \in DOMAIN report
           THEN Return(report.reportCategories)
           ELSE ThrowError("TypeError", <<"undefined is not iterable">>)

_renderReportFooterFirst(report) ==
  Then(_renderReportHeader(report),
    LAMBDA header :
      Then(ReadReportCategories(report),
        LAMBDA reportCategories :
          Then(renderCategories(
                 createElement("div", "lighthouse-categories", NoAttrs),
                 reportCategories),
            LAMBDA categories :
              Then(_renderReportFooter(report),
                LAMBDA footer :
                  Return(appendChild(
                           appendChild(
                             appendChild(
                               createElement("div", "lighthouse-report", NoAttrs),
                               header),
                             footer),
                           categories))))))

_renderReport(report) ==
  Then(_renderReportHeader(report),
    LAMBDA header :
      Then(ReadReportCategories(report),
        LAMBDA reportCategories :
          Then(renderCategories(
                 createElement("div", "lighthouse-categories", NoAttrs),
                 reportCategories),
            LAMBDA categories :
              Then(_renderReportFooter(report),
                LAMBDA footer :
                  Return(appendChild(
                           appendChild(
                             appendChild(
                               createElement("div", "lighthouse-report", NoAttrs),
                               header),
                             categories),
                           footer))))))

\* A node of the page: an element together with its identity, the call that
\* created it and its role in that call.
Node(call, role, el) == [call |-> call, role |-> role, el |-> el]

\* The try/catch of renderReport, where _renderReport(report) completed as
\* `tree` and this._reportFeatures.attach(report), if reached, completes as
\* `attach`: the children of the container afterwards (from `children`),
\* the completion of the call, and whether attach threw.
TryCatch(tree, attach, children, call) ==
  IF tree.thrown
    THEN [container |-> Append(children,
                               Node(call, "exception", _renderException(tree.error))),
          completion |-> Return(Node(call, "exception", _renderException(tree.error))),
          attachThrew |-> FALSE]
    ELSE IF attach.thrown
      THEN [container |-> children \o
                            <<Node(call, "report", tree.value),
                              Node(call, "exception", _renderException(attach.error))>>,
            completion |-> Return(Node(call, "exception",
                                       _renderException(attach.error))),
            attachThrew |-> TRUE]
      ELSE [container |-> Append(children, Node(call, "report", tree.value)),
            completion |-> Return(Node(call, "report", tree.value)),
            attachThrew |-> FALSE]

\* The same without the catch: the error propagates to the caller.
TryNoCatch(tree, attach, children, call) ==
  IF tree.thrown
    THEN [container |-> children, completion |-> tree, attachThrew |-> FALSE]
    ELSE IF attach.thrown
      THEN [container |-> Append(children, Node(call, "report", tree.value)),
            completion |-> attach, attachThrew |-> TRUE]
      ELSE [container |-> Append(children, Node(call, "report", tree.value)),
            completion |-> Return(Node(call, "report", tree.value)),
            attachThrew |-> FALSE]

\* renderReport(report, container), called as call number `call` on a
\* container with the children `children`: the outcomes of the call, one
\* for each way this._reportFeatures.attach(report) may complete.
renderReportNoCatch(report, children, attaches, call) ==
  LET tree == _renderReport(report)
  IN {TryNoCatch(tree, attach, << >>, call) : attach \in attaches}

renderReport(report, children, attaches, call) ==
  LET tree == _renderReport(report)
  IN {TryCatch(tree, attach, << >>, call) : attach \in attaches}

(***************************************************************************)
(* The details documents the model renders.                                *)
(***************************************************************************)
TextNode(s) == [type |-> "text", text |-> s]
BlockNode(items) == [type |-> "block", items |-> items]
ListNode(header, items) ==
  IF header = None
    THEN [type |-> "list", items |-> items]
    ELSE [type |-> "list", header |-> header, items |-> items]
CardsNode(header, items) ==
  IF header = None
    THEN [type |-> "cards", items |-> items]
    ELSE [type |-> "cards", header |-> header, items |-> items]

\* A header is a DetailsNode; its type is free.
BogusHeader == [type |-> "bogus", text |-> "My Header"]
Headers == {None, TextNode("My Header"), BogusHeader}

\* The records of a cards node: snippet and target are optional, and a
\* target is a string or a number.
Snippets == {JSUndefined, JSStr(""), JSStr("snippet")}
Targets == {JSUndefined, JSStr(""), JSStr("1,500 nodes"), JSNum(0), JSNum(20)}
CardItem(snippet, target) ==
  LET base == [title |-> JSStr("DOM Depth"), value |-> JSNum(10)]
      s == IF snippet = JSUndefined THEN base ELSE base @@ [snippet |-> snippet]
  IN IF target = JSUndefined THEN s ELSE s @@ [target |-> target]
CardItems == {CardItem(s, t) : s \in Snippets, t \in Targets}

RECURSIVE SeqsUpTo(_, _)
SeqsUpTo(S, n) ==
  IF n = 0 THEN {<< >>}
  ELSE SeqsUpTo(S, n - 1)
         \cup {Append(q, x) : q \in {r \in SeqsUpTo(S, n - 1) : Len(r) = n - 1},
                              x \in S}

\* Cards nodes rendered on their own.
CardsDocs == {CardsNode(h, q) : h \in Headers, q \in SeqsUpTo(CardItems, MaxCards)}

\* Nodes without items of their own: a text, a node of an unrecognized type,
\* and a cards node.
Leaves ==
  {TextNode("content 1"),
   [type |-> "table"],
   [type |-> "code"],
   CardsNode(TextNode("View details"), <<CardItem(JSStr("snippet"), JSNum(20))>>)}

\* DocTable(n) tabulates, for sizes up to n, docs[k]: the documents of
\* exactly k nodes, and forests[m + 1]: the item sequences whose documents
\* have m nodes together (m < n).  Below the root a list has no header or a
\* text header.
DocsOver(forests, leaves) ==
  leaves \cup {BlockNode(f) : f \in forests}
         \cup {ListNode(h, f) : h \in {None, TextNode("My Header")}, f \in forests}

RECURSIVE DocTable(_)
DocTable(n) ==
  IF n = 0 THEN [docs |-> << >>, forests |-> << >>]
  ELSE LET prev == DocTable(n - 1)
           forest ==
             IF n = 1 THEN {<< >>}
             ELSE UNION {{<<d>> \o f : d \in prev.docs[k],
                                       f \in prev.forests[n - k]} : k \in 1..(n - 1)}
       IN [docs |-> Append(prev.docs,
                           DocsOver(forest, IF n = 1 THEN Leaves ELSE {})),
           forests |-> Append(prev.forests, forest)]

TreeTable == DocTable(MaxNodes)

\* Every document of at most MaxNodes nodes is rendered, and so is every
\* list whose header has an unrecognized type, and every cards node of
\* CardsDocs.
IsDoc(doc) ==
  \/ \E n \in 1..MaxNodes : doc \in TreeTable.docs[n]
  \/ \E n \in 1..MaxNodes : doc \in {ListNode(BogusHeader, f) : f \in TreeTable.forests[n]}
  \/ doc \in CardsDocs

(***************************************************************************)
(* State machine of the details renderer: one render call on a document.   *)
(***************************************************************************)
\* No renderReport call has been made: the container is empty.
InitReport ==
  /\ viewer = None
  /\ last = None
  /\ events = 0
  /\ displayedShared = FALSE
  /\ superseded = 0
  /\ container = << >>
  /\ returned = None
  /\ lastReport = None
  /\ attachThrew = FALSE
  /\ calls = 0

\* The document to render is one of the documents of IsDoc; nothing is rendered yet.
InitDetails ==
  /\ IsDoc(details)
  /\ rendered = None
  /\ InitReport
  /\ templates = {}
  /\ arg = None
  /\ outcome = None

\* renderer.render(details)
Render ==
  /\ rendered = None
  /\ rendered' = render(details)
  /\ UNCHANGED <<details, reportVars, callVars, viewerVars>>

NextDetails == Render

SpecDetails == InitDetails /\ [][NextDetails]_vars

(***************************************************************************)
(* The reports the model renders, and the state machine of the report      *)
(* renderer: renderReport calls on one container.                          *)
(***************************************************************************)
\* "See [docs](https://x)."
HelpText ==
  <<"S", "e", "e", " ", "[", "d", "o", "c", "s", "]", "(",
    "h", "t", "t", "p", "s", ":", "/", "/", "x", ")", ".">>

PassAudit ==
  [id |-> "is-on-https", weight |-> 1, score |-> 1000,
   result |-> [description |-> "Uses HTTPS", helpText |-> HelpText,
               scoringMode |-> "binary"]]

FailAudit ==
  [id |-> "first-meaningful-paint", weight |-> 1, score |-> 0,
   result |-> [description |-> "First meaningful paint",
               displayValue |-> "4,510ms", optimalValue |-> "1,600 ms",
               helpText |-> HelpText, scoringMode |-> "numeric",
               details |-> ListNode(TextNode("View details"),
                                    <<TextNode("content 1")>>)]]

\* An audit whose details hold a node of an unrecognized type.
UnknownDetailsAudit ==
  [id |-> "critical-request-chains", weight |-> 1, score |-> 449,
   result |-> [description |-> "Critical Request Chains",
               helpText |-> HelpText, scoringMode |-> "binary",
               details |-> BlockNode(<<TextNode("content 1"), [type |-> "table"]>>)]]

Audits == {PassAudit, FailAudit, UnknownDetailsAudit}

Category(audits) ==
  [name |-> "Performance", weight |-> 1, score |-> 745,
   description |-> HelpText, audits |-> audits]

\* The category sequences of m categories and audits together.
RECURSIVE CategorySeqs(_)
CategorySeqs(m) ==
  IF m = 0 THEN {<< >>}
  ELSE UNION {{<<Category(a)>> \o rest :
                 a \in {q \in SeqsUpTo(Audits, k - 1) : Len(q) = k - 1},
                 rest \in CategorySeqs(m - k)} : k \in 1..m}

ReportFields ==
  [url |-> "https://example.com/", generatedTime |-> JSStr("2017-04-10T12:00:00Z"),
   lighthouseVersion |-> "1.6.0",
   runtimeConfig |-> [environment |->
     <<[name |-> "Network throttling", description |-> "562.5ms RTT",
        enabled |-> TRUE]>>]]

\* The report of the test of invalid input: only a getter that throws.
InvalidReport == [reportCategoriesGetter |-> "throws"]

Reports ==
  UNION {{ReportFields @@ [reportCategories |-> c] : c \in CategorySeqs(m)} :
           m \in 0..MaxReportNodes}
    \cup {InvalidReport,
          ReportFields @@ InvalidReport,
          [url |-> "https://example.com/",
           generatedTime |-> JSStr("2017-04-10T12:00:00Z"),
           lighthouseVersion |-> "1.6.0", reportCategories |-> << >>]}

\* The document provides every template, or lacks the template of the
\* audit score (cloned first inside a category) or of the footer (cloned
\* after every category has been rendered).
TemplateOptions ==
  {TemplateSelectors,
   TemplateSelectors \ {"#tmpl-lighthouse-audit-score"},
   TemplateSelectors \ {"#tmpl-lighthouse-footer"}}

\* The completions of this._reportFeatures.attach(report).
AttachOutcomes ==
  {Return(JSUndefined), ThrowError("TypeError", <<"attach failed">>)}

Init ==
  /\ InitReport
  /\ templates \in TemplateOptions
  /\ details = None
  /\ rendered = None
  /\ arg = None
  /\ outcome = None

\* renderer.renderReport(report, container)
RenderReport(report) ==
  /\ calls < MaxCalls
  /\ \E r \in renderReport(report, container, AttachOutcomes, calls + 1) :
       /\ container' = r.container
       /\ returned' = r.completion
       /\ attachThrew' = r.attachThrew
  /\ lastReport' = report
  /\ calls' = calls + 1
  /\ UNCHANGED <<templates, detailsVars, callVars, viewerVars>>

Next == \E report \in Reports : RenderReport(report)

Spec == Init /\ [][Next]_vars

(***************************************************************************)
(* State machine of the score elements: one _renderAuditScore or           *)
(* _renderCategoryScore call on an audit or a category of any score.       *)
(***************************************************************************)
ScoringModes == {"binary", "numeric"}
Scores == 0..MaxScore

ScoredAudit(score, scoringMode) ==
  [kind |-> "audit",
   value |-> [id |-> "is-on-https", weight |-> 1, score |-> score,
              result |-> [description |-> "Uses HTTPS", helpText |-> HelpText,
                          scoringMode |-> scoringMode]]]

ScoredCategory(score) ==
  [kind |-> "category",
   value |-> [name |-> "Performance", weight |-> 1, score |-> score,
              description |-> HelpText, audits |-> << >>]]

InitScore ==
  /\ arg \in {ScoredAudit(score, mode) : score \in Scores, mode \in ScoringModes}
               \cup {ScoredCategory(score) : score \in Scores}
  /\ outcome = None
  /\ templates = TemplateSelectors
  /\ InitReport
  /\ details = None
  /\ rendered = None

\* renderer._renderAuditScore(audit)
RenderAuditScore ==
  /\ outcome = None
  /\ arg.kind = "audit"
  /\ outcome' = _renderAuditScore(arg.value)
  /\ UNCHANGED <<arg, detailsVars, reportVars, viewerVars>>

\* renderer._renderCategoryScore(category)
RenderCategoryScore ==
  /\ outcome = None
  /\ arg.kind = "category"
  /\ outcome' = _renderCategoryScore(arg.value)
  /\ UNCHANGED <<arg, detailsVars, reportVars, viewerVars>>

NextScore == RenderAuditScore \/ RenderCategoryScore

SpecScore == InitScore /\ [][NextScore]_vars

(***************************************************************************)
(* State machine of the markdown helper: one createSpanFromMarkdown call   *)
(* on a text made of a few tokens: whole links, a link with an empty       *)
(* label, the pattern's punctuation on its own, a letter and a newline.    *)
(***************************************************************************)
MarkdownTokens ==
  {<<"[", "x", "]", "(", "h", "t", "t", "p", ":", "/", "/", "y", ")">>,
   <<"[", "]", "(", "h", "t", "t", "p", "s", ":", "/", "/", "y", ")">>,
   <<"[">>, <<"]">>, <<"(">>, <<")">>, <<"x">>, <<"\n">>}

\* The texts of at most n tokens.
RECURSIVE MarkdownTexts(_)
MarkdownTexts(n) ==
  IF n = 0 THEN {<< >>}
  ELSE MarkdownTexts(n - 1)
         \cup {t \o token : t \in MarkdownTexts(n - 1), token \in MarkdownTokens}

InitMarkdown ==
  /\ arg \in {[kind |-> "markdown", value |-> t] : t \in MarkdownTexts(MaxTokens)}
  /\ outcome = None
  /\ templates = {}
  /\ InitReport
  /\ details = None
  /\ rendered = None

\* dom.createSpanFromMarkdown(text)
CreateSpanFromMarkdown ==
  /\ outcome = None
  /\ outcome' = Return(createSpanFromMarkdown(arg.value))
  /\ UNCHANGED <<arg, detailsVars, reportVars, viewerVars>>

NextMarkdown == CreateSpanFromMarkdown

SpecMarkdown == InitMarkdown /\ [][NextMarkdown]_vars

(***************************************************************************)
(* Viewer (LighthouseViewerReport).  A string that is compared or matched  *)
(* (a version) is a sequence of characters.  The state of the viewer and   *)
(* of its page is a record v; every method maps it to the record after the *)
(* call.  Analytics call-outs (ga) are not part of the state.              *)
(***************************************************************************)
DigitChars == <<"0", "1", "2", "3", "4", "5", "6", "7", "8", "9">>

IsDigit(c) == \E d \in 1..10 : DigitChars[d] = c

\* The UTF-16 code unit of a character of a version string.
CharCode(c) ==
  IF c = "." THEN 46
  ELSE IF c = "-" THEN 45
  ELSE 47 + (CHOOSE d \in 1..10 : DigitChars[d] = c)

\* a < b on strings: the comparison of their code units, position by
\* position, a proper prefix being the smaller.
RECURSIVE StringLess(_, _)
StringLess(a, b) ==
  IF b = << >> THEN FALSE
  ELSE IF a = << >> THEN TRUE
  ELSE IF Head(a) = Head(b) THEN StringLess(Tail(a), Tail(b))
  ELSE CharCode(Head(a)) < CharCode(Head(b))

AllDigits(str, from, to) == \A k \in from..to : IsDigit(str[k])

\* The pairs <<i, j>> of positions of the two dots of a match of
\* /^(\d+)?\.(\d+)?\.(\d+)$/ on a string.
SemverDots(str) ==
  {d \in (1..Len(str)) \X (1..Len(str)) :
     /\ d[1] < d[2] /\ d[2] < Len(str)
     /\ str[d[1]] = "." /\ str[d[2]] = "."
     /\ AllDigits(str, 1, d[1] - 1)
     /\ AllDigits(str, d[1] + 1, d[2] - 1)
     /\ AllDigits(str, d[2] + 1, Len(str))}

\* version.replace(semverRe, '$1.$2'): major.minor of a version the
\* expression matches, any other string unchanged.
MajorMinor(str) ==
  IF SemverDots(str) = {} THEN str
  ELSE SubSeq(str, 1, (CHOOSE d \in SemverDots(str) : TRUE)[2] - 1)

\* logger.log / logger.warn / logger.error
Log(v, level, message) ==
  [v EXCEPT !.logged = Append(@, [level |-> level, message |-> message])]

\* A call that returned, or threw an error with a message, leaving the
\* viewer and its page as v.
Done(v) == [v |-> v, thrown |-> FALSE]
Threw(v, message) == [v |-> v, thrown |-> TRUE, message |-> message]

\* The rest F of a method after a call that completed as c.
AndThen(c, F(_)) == IF c.thrown THEN c ELSE F(c.v)

\* catch (err) { F }: the handler F of an error thrown by c.
Catch(c, F(_, _)) == IF c.thrown THEN F(c.v, c.message) ELSE c

_validateReportJson(v, reportJson) ==
  IF ~("lighthouseVersion" \in DOMAIN reportJson
         /\ reportJson.lighthouseVersion # << >>)
    THEN Threw(v, "JSON file was not generated by Lighthouse")
    ELSE IF StringLess(MajorMinor(reportJson.lighthouseVersion),
                       MajorMinor(v.LH_CURRENT_VERSION))
           THEN Done(Log(v, "warn", "Results may not display properly."))
           ELSE Done(v)

\* The page reportGenerator.generateHTML(json, 'viewer') makes of a report,
\* its title and its report section.
GenerateHTML(reportJson) ==
  [title |-> <<"Lighthouse Report: ", reportJson.url>>, report |-> reportJson]

\* fileUploader.removeDropzonePlaceholder()
removeDropzonePlaceholder(v) == [v EXCEPT !.dropzonePlaceholder = FALSE]

\* this._addEventListeners(): the share button is enabled for a new report
\* and disabled for one that is already shared.
_addEventListeners(v) == [v EXCEPT !.shareDisabled = ~v._isNewReport]

\* The statements of replaceReportHTML after the validation.
ShowReport(v, reportJson) ==
  _addEventListeners(
    [removeDropzonePlaceholder(v) EXCEPT
       !.generated = @ + 1,
       !.title = GenerateHTML(reportJson).title,
       !.json = reportJson,
       !.output = GenerateHTML(reportJson).report])

\* With the validation after the page has been replaced.
replaceReportHTMLValidateLast(v, reportJson) ==
  _validateReportJson(ShowReport(v, reportJson), reportJson)

replaceReportHTML(v, reportJson) ==
  AndThen(_validateReportJson(v, reportJson),
          LAMBDA w : Done(ShowReport(w, reportJson)))

\* A text (of a file, of the clipboard, of the gist URL input) is held by
\* what it parses to: JSON of a value, a URL of an origin whose path holds
\* a gist id (gist, "": none), or neither; the empty text is neither.
JsonText(value) == [t |-> "json", value |-> value]
UrlText(origin, gist) == [t |-> "url", origin |-> origin, gist |-> gist]
PlainText == [t |-> "plain"]
EmptyText == [t |-> "empty"]

\* JSON.parse(text) and new URL(text) do not throw.
IsJson(text) == text.t = "json"
IsUrl(text) == text.t = "url"

\* err => logger.error(err.message)
LogError(v, message) == Done(Log(v, "error", message))

\* catch (err) { // noop }
Noop(v, message) == Done(v)

\* loadFromDeepLink(): the gist named in the page's URL, if any, starts to
\* be fetched from GitHub.
loadFromDeepLink(v) ==
  IF v.search = "" THEN v
  ELSE [Log(v, "log", "Fetching report from GitHub...") EXCEPT
          !.fetches = Append(@, v.search)]

\* history.pushState({}, null, `${APP_URL}?gist=${id}`)
pushState(v, id) == [v EXCEPT !.search = id]

_loadFromGistURL(v, text) ==
  IF ~IsUrl(text) THEN Log(v, "error", "Invalid URL")
  ELSE IF text.origin # "https://gist.github.com"
         THEN Log(v, "error", "URL was not a gist")
         ELSE IF text.gist # "" THEN loadFromDeepLink(pushState(v, text.gist))
              ELSE v

\* onPaste(e): the text is tried as a gist URL, then as JSON content; a
\* text is of one kind, so at most one of the two tries does anything.
onPaste(v, text) ==
  IF IsUrl(text) THEN _loadFromGistURL(v, text)
  ELSE IF IsJson(text) THEN Catch(replaceReportHTML(v, text.value), Noop).v
  ELSE v

onInputChange(v, text) ==
  IF text = EmptyText THEN v ELSE _loadFromGistURL(v, text)

\* onFileUpload(file): FileUploader.readFile(file) yields the text of the
\* file, or fails for a file it cannot read.
onFileUpload(v, file) ==
  IF ~file.readable THEN Log(v, "error", "Unsupported file")
  ELSE IF ~IsJson(file.text) THEN Log(v, "error", "Could not parse JSON file.")
  ELSE Catch(
         replaceReportHTML([v EXCEPT !._isNewReport = TRUE], file.text.value),
         LogError).v

\* onShare(): a gist of the current report starts to be created.
onShare(v) == [v EXCEPT !.shares = Append(@, v.json)]

Without(seq, i) == SubSeq(seq, 1, i - 1) \o SubSeq(seq, i + 1, Len(seq))

\* The end of github.createGist(this.json) for the i-th gist being created:
\* it was created as id (the share button is disabled and the URL of the
\* page names the gist), or it failed.
GistCreated(v, i, id) ==
  pushState([v EXCEPT !.shares = Without(@, i), !.shareDisabled = TRUE], id)

GistNotCreated(v, i) ==
  Log([v EXCEPT !.shares = Without(@, i)], "log", "Unable to create gist")

\* idb.set(key, value)
IdbSet(v, key, value) ==
  [v EXCEPT !.idb = {p \in @ : p[1] # key} \cup {<<key, value>>}]

\* With the fetched gist saved before it is shown.
GistFetchedSaveFirst(v, i, fetched) ==
  Catch(
    replaceReportHTML(
      IdbSet([v EXCEPT !.fetches = Without(@, i), !._isNewReport = FALSE],
             v.fetches[i], fetched),
      fetched.content),
    LogError).v

\* The end of github.getGistFileContentAsJson(gistId) for the i-th gist
\* being fetched, with the callbacks of loadFromDeepLink (logger.hide()
\* takes the message off the page and leaves what has been logged).
GistFetched(v, i, fetched) ==
  Catch(
    AndThen(
      replaceReportHTML(
        [v EXCEPT !.fetches = Without(@, i), !._isNewReport = FALSE],
        fetched.content),
      LAMBDA w : Done(IdbSet(w, v.fetches[i], fetched))),
    LogError).v

GistNotFetched(v, i) ==
  Log([v EXCEPT !.fetches = Without(@, i)], "error", "Unable to fetch gist")

\* Without the test of the source of the message.
OnMessageAnySource(v, e) ==
  IF "lhresults" \in DOMAIN e.data
    THEN replaceReportHTML(v, e.data.lhresults).v
    ELSE v

\* The listener of listenForMessages; an error it throws is not caught.
OnMessage(v, e) ==
  IF e.source = v.opener /\ "lhresults" \in DOMAIN e.data
    THEN replaceReportHTML(v, e.data.lhresults).v
    ELSE v

\* The viewer after its constructor, on a page whose URL names the gist
\* `search` ("": none) and that was opened by the window `opener` (None:
\* by no window):
\* the share button is enabled, the gist of the URL is being fetched, and an
\* opener that is not closed has been told that the viewer is ready.
NewViewer(current, search, opener) ==
  [LH_CURRENT_VERSION |-> current,
   json |-> None,
   output |-> None,
   title |-> <<"Lighthouse Viewer">>,
   dropzonePlaceholder |-> TRUE,
   _isNewReport |-> TRUE,
   shareDisabled |-> FALSE,
   logged |-> IF search = "" THEN << >>
              ELSE <<[level |-> "log", message |-> "Fetching report from GitHub..."]>>,
   search |-> search,
   fetches |-> IF search = "" THEN << >> ELSE <<search>>,
   idb |-> {},
   shares |-> << >>,
   generated |-> 0,
   opener |-> opener,
   posted |-> IF opener # None /\ ~opener.closed
                THEN <<[opened |-> TRUE]>> ELSE << >>]

(***************************************************************************)
(* State machine of the version check: one _validateReportJson call on a   *)
(* report of one version by a viewer of another.                           *)
(***************************************************************************)
\* `${major}.${minor}.${patch}`
VersionString(version) ==
  Digits(version[1]) \o <<".">> \o Digits(version[2]) \o <<".">>
    \o Digits(version[3])

Versions == (1..MaxMajor) \X (0..MaxMinor) \X (0..1)

InitVersion ==
  /\ arg \in {[kind |-> "version", report |-> r, current |-> c] :
                r \in Versions, c \in {w \in Versions : w[3] = 0}}
  /\ outcome = None
  /\ templates = {}
  /\ InitReport
  /\ details = None
  /\ rendered = None

\* viewer._validateReportJson(reportJson)
ValidateReportJson ==
  /\ outcome = None
  /\ outcome' = _validateReportJson(
                  NewViewer(VersionString(arg.current), "", None),
                  [lighthouseVersion |-> VersionString(arg.report),
                   url |-> "https://example.com/"])
  /\ UNCHANGED <<arg, detailsVars, reportVars, viewerVars>>

NextVersion == ValidateReportJson

SpecVersion == InitVersion /\ [][NextVersion]_vars

(***************************************************************************)
(* State machine of the viewer: the events of its page, and the ends of    *)
(* the gist requests it has started.                                       *)
(***************************************************************************)
CurrentReport ==
  [lighthouseVersion |-> VersionString(<<1, 6, 0>>), url |-> "https://example.com/"]
OlderReport ==
  [lighthouseVersion |-> VersionString(<<1, 5, 0>>), url |-> "https://old.example/"]
\* JSON that no Lighthouse generated: it has no lighthouseVersion.
NoVersionJson == [url |-> "https://example.com/"]

ReportJsons == {CurrentReport, OlderReport, NoVersionJson}
UrlTexts ==
  {UrlText("https://gist.github.com", "abcdef12345"),
   UrlText("https://gist.github.com", ""),
   UrlText("https://example.com", "")}

Files ==
  {[readable |-> FALSE]}
    \cup {[readable |-> TRUE, text |-> t] : t \in {PlainText} \cup {JsonText(j) : j \in ReportJsons}}
PasteTexts == {PlainText} \cup {JsonText(j) : j \in ReportJsons} \cup UrlTexts
InputTexts == {EmptyText, PlainText} \cup UrlTexts

OpenerWindow(closed) == [name |-> "opener", closed |-> closed]
OtherWindow == [name |-> "other", closed |-> FALSE]

\* The sources a message event of the viewer's window can have: any other
\* window, the opener while it is open, and none (event.source is null when
\* the event comes from no window, or from one that is gone by the time the
\* event is delivered).
Sources(v) ==
  {OtherWindow, None}
    \cup (IF v.opener # None /\ ~v.opener.closed THEN {v.opener} ELSE {})
Messages(v) ==
  {[source |-> w, data |-> d] :
     w \in Sources(v),
     d \in {[lhresults |-> j] : j \in ReportJsons} \cup {[opened |-> TRUE]}}

FetchedGists == {[etag |-> "W/1", content |-> j] : j \in ReportJsons}

InitViewer ==
  /\ viewer \in {NewViewer(VersionString(<<1, 6, 0>>), search, opener) :
                   search \in {"", "abcdef12345"},
                   opener \in {None, OpenerWindow(FALSE), OpenerWindow(TRUE)}}
  /\ last = None
  /\ events = 0
  /\ displayedShared = FALSE
  /\ superseded = 0
  /\ arg = None
  /\ outcome = None
  /\ templates = {}
  /\ container = << >>
  /\ returned = None
  /\ lastReport = None
  /\ attachThrew = FALSE
  /\ calls = 0
  /\ details = None
  /\ rendered = None

\* The viewer handles an event, which leaves it as w.  A report shown by the
\* event is already shared when it came from a gist; the report on display
\* becomes shared when a gist of it has been created.
Loaded(event, input, w, stale) ==
  /\ events < MaxEvents
  /\ superseded' = stale
  /\ viewer' = w
  /\ last' = [event |-> event, input |-> input]
  /\ events' = events + 1
  /\ displayedShared' =
       IF w.generated > viewer.generated THEN event = "gist"
       ELSE IF event = "created" /\ input = viewer.json THEN TRUE
       ELSE displayedShared
  /\ UNCHANGED <<detailsVars, reportVars, callVars>>

\* The gists still being fetched that are older than the load started last,
\* after an event that leaves the viewer as w: an event that asks for a
\* gist, or that shows a report at once, starts a load newer than every
\* fetch that was already going on.
Started(w) ==
  IF Len(w.fetches) > Len(viewer.fetches) THEN Len(w.fetches) - 1
  ELSE IF w.generated > viewer.generated THEN Len(w.fetches)
  ELSE superseded

\* An event of the page.
Handle(event, input, w) == Loaded(event, input, w, Started(w))

\* Every event starts with the messages of the event before it forgotten.
Fresh == [viewer EXCEPT !.logged = << >>]

FileUpload == \E file \in Files : Handle("file", file, onFileUpload(Fresh, file))

Paste == \E text \in PasteTexts : Handle("paste", text, onPaste(Fresh, text))

InputChange ==
  \E text \in InputTexts : Handle("input", text, onInputChange(Fresh, text))

Message == \E e \in Messages(viewer) : Handle("message", e, OnMessage(Fresh, e))

\* A click on the share button, which a disabled button does not take.
Share ==
  /\ ~viewer.shareDisabled
  /\ Handle("share", viewer.json, onShare(Fresh))

ShareDone ==
  \E i \in 1..Len(viewer.shares) :
    Handle("created", viewer.shares[i], GistCreated(Fresh, i, "c0ffee12345"))

ShareFailed ==
  \E i \in 1..Len(viewer.shares) :
    Handle("notCreated", viewer.shares[i], GistNotCreated(Fresh, i))

Fetched ==
  \E i \in 1..Len(viewer.fetches), fetched \in FetchedGists :
    Loaded("gist", fetched.content, GistFetched(Fresh, i, fetched),
           IF i <= superseded THEN superseded - 1 ELSE superseded)

FetchFailed ==
  \E i \in 1..Len(viewer.fetches) :
    Loaded("notFetched", viewer.fetches[i], GistNotFetched(Fresh, i),
           IF i <= superseded THEN superseded - 1 ELSE superseded)

NextViewer ==
  \/ FileUpload \/ Paste \/ InputChange \/ Message
  \/ Share \/ ShareDone \/ ShareFailed
  \/ Fetched \/ FetchFailed

SpecViewer == InitViewer /\ [][NextViewer]_vars

(***************************************************************************)
(* Vocabulary of the claims about the details renderer.                    *)
(***************************************************************************)
KnownTypes == {"text", "block", "cards", "list"}

HasItems(node) == node.type \in {"block", "list"}

\* The nodes render is called on, in call order, were no call to throw:
\* the node itself, then the nodes of its items (block and list only).
RECURSIVE Preorder(_), PreorderAll(_)
Preorder(node) ==
  <<node>> \o (IF HasItems(node) THEN PreorderAll(node.items) ELSE << >>)
PreorderAll(items) ==
  IF items = << >> THEN << >>
  ELSE Preorder(Head(items)) \o PreorderAll(Tail(items))

\* Every DetailsNode of a document: those reached through items, and the
\* headers of list and cards nodes.
AllNodes(doc) ==
  LET viaItems == {Preorder(doc)[i] : i \in 1..Len(Preorder(doc))}
  IN viaItems \cup {n.header : n \in {m \in viaItems : "header" \in DOMAIN m}}

UnknownPositions(doc) ==
  {i \in 1..Len(Preorder(doc)) : Preorder(doc)[i].type \notin KnownTypes}

FirstUnknown(doc) ==
  Preorder(doc)[CHOOSE i \in UnknownPositions(doc) :
                  \A j \in UnknownPositions(doc) : i <= j]

\* The children of an element that carry a given class.
ChildrenOfClass(el, cls) ==
  {i \in 1..Len(el.children) : cls \in el.children[i].cls}

\* The element that holds the rendered items of a block or list element:
\* the block element itself, the 'lighthouse-list__items' child of a list.
ItemsContainer(node, el) ==
  IF node.type = "block" THEN el
  ELSE el.children[CHOOSE i \in ChildrenOfClass(el, "lighthouse-list__items") : TRUE]

\* The (node, element) pairs of a rendered document, at every depth.
RECURSIVE Pairs(_, _)
Pairs(node, el) ==
  {<<node, el>>} \cup
    (IF HasItems(node) /\ (node.type = "list" =>
                             ChildrenOfClass(el, "lighthouse-list__items") # {})
       THEN LET kids == ItemsContainer(node, el).children
                n == IF Len(kids) < Len(node.items) THEN Len(kids)
                     ELSE Len(node.items)
            IN UNION {Pairs(node.items[i], kids[i]) : i \in 1..n}
       ELSE {})

ClassOfType(type) ==
  CASE type = "text" -> "lighthouse-text"
    [] type = "block" -> "lighthouse-block"
    [] type = "list" -> "lighthouse-list"
    [] type = "cards" -> "lighthouse-details"

RenderedOk == rendered # None /\ ~rendered.thrown
RenderedPairs == Pairs(details, rendered.value)

\* C5: rendering a document in which render reaches (through the items of
\* block and list nodes, at any depth) a node of an unrecognized type throws
\* an error whose message names the type of the first such node reached;
\* no element is returned.
C5_UnknownTypeRaises ==
  (rendered # None /\ UnknownPositions(details) # {}) =>
    /\ rendered.thrown
    /\ rendered.error.message = <<"Unknown type: ", FirstUnknown(details).type>>

C5_Witness ==
  /\ rendered # None
  /\ details.type = "list"
  /\ Len(details.items) = 1
  /\ details.items[1].type = "block"
  /\ Len(details.items[1].items) = 2
  /\ details.items[1].items[2].type = "code"
  /\ rendered.thrown
  /\ rendered.error.message = <<"Unknown type: ", "code">>

\* C6: if any DetailsNode of the document, an element of items or the header
\* of a list or cards node, has an unrecognized type, rendering the document
\* fails with an error.
C6_NoUnknownTypeIgnored ==
  (rendered # None /\ \E n \in AllNodes(details) : n.type \notin KnownTypes) =>
    rendered.thrown

\* C7: in a rendered document, at every depth, a block element has exactly
\* items.length children and a list's 'lighthouse-list__items' element has
\* exactly items.length children, the i-th being the rendering of items[i].
C7_ChildrenMatchItems ==
  RenderedOk =>
    \A p \in RenderedPairs :
      HasItems(p[1]) =>
        /\ p[1].type = "list" =>
             Cardinality(ChildrenOfClass(p[2], "lighthouse-list__items")) = 1
        /\ LET kids == ItemsContainer(p[1], p[2]).children
           IN /\ Len(kids) = Len(p[1].items)
              /\ \A i \in 1..Len(kids) :
                   /\ ClassOfType(p[1].items[i].type) \in kids[i].cls
                   /\ render(p[1].items[i]) = Return(kids[i])

C7_Witness ==
  /\ RenderedOk
  /\ details.type = "block"
  /\ Len(details.items) = 2
  /\ details.items[1].type = "text"
  /\ details.items[2].type = "list"
  /\ Len(details.items[2].items) = 1
  /\ Len(rendered.value.children) = 2

\* C8: a rendered list has a header (summary) element iff its header field
\* is present; the header is then the first child, directly before the
\* items container, and its text is the header node's text.
C8_ListHeaderIffPresent ==
  RenderedOk =>
    \A p \in RenderedPairs :
      p[1].type = "list" =>
        LET el == p[2]
            summaries == {i \in 1..Len(el.children) : el.children[i].tag = "summary"}
        IN IF "header" \in DOMAIN p[1]
             THEN /\ summaries = {1}
                  /\ "lighthouse-list__header" \in el.children[1].cls
                  /\ el.children[1].text = <<p[1].header.text>>
                  /\ ChildrenOfClass(el, "lighthouse-list__items") = {2}
             ELSE /\ summaries = {}
                  /\ ChildrenOfClass(el, "lighthouse-list__items") = {1}

C8_Witness ==
  /\ RenderedOk
  /\ \E p \in RenderedPairs :
       /\ p[1].type = "list" /\ "header" \in DOMAIN p[1]
       /\ Len(p[1].items) = 2
       /\ p[2].children[1].text = <<"My Header">>
  /\ \E p \in RenderedPairs :
       /\ p[1].type = "list" /\ "header" \notin DOMAIN p[1]
       /\ Len(p[2].children) = 1

\* The card elements of a rendered cards node.
CardsOf(el) ==
  el.children[CHOOSE i \in ChildrenOfClass(el, "lighthouse-scorecards") : TRUE].children

\* C9: a rendered cards node has one card element per item, in item order,
\* and a card has a title attribute iff its item has a snippet, the
\* attribute's value being the snippet.
C9_CardsAndSnippetTitle ==
  RenderedOk =>
    \A p \in RenderedPairs :
      p[1].type = "cards" =>
        /\ Cardinality(ChildrenOfClass(p[2], "lighthouse-scorecards")) = 1
        /\ Len(CardsOf(p[2])) = Len(p[1].items)
        /\ \A i \in 1..Len(p[1].items) :
             LET card == CardsOf(p[2])[i]
                 item == p[1].items[i]
             IN /\ "lighthouse-scorecard" \in card.cls
                /\ ("title" \in DOMAIN card.attrs) <=> ("snippet" \in DOMAIN item)
                /\ "snippet" \in DOMAIN item => card.attrs.title = <<item.snippet.s>>

C9_Witness ==
  /\ RenderedOk
  /\ details.type = "cards"
  /\ Len(details.items) = 2
  /\ "snippet" \notin DOMAIN details.items[1]
  /\ "snippet" \in DOMAIN details.items[2]
  /\ Len(CardsOf(rendered.value)) = 2
  /\ DOMAIN CardsOf(rendered.value)[1].attrs = {}
  /\ CardsOf(rendered.value)[2].attrs.title = <<"snippet">>

\* C10: a card holds a 'target: <target>' line element iff its item's target
\* field is present, whatever the value of target (string or number).
C10_TargetLineIffPresent ==
  RenderedOk =>
    \A p \in RenderedPairs :
      p[1].type = "cards" =>
        \A i \in 1..Len(p[1].items) :
          LET card == CardsOf(p[2])[i]
              item == p[1].items[i]
              lines == ChildrenOfClass(card, "lighthouse-scorecard__target")
          IN IF "target" \in DOMAIN item
               THEN /\ Cardinality(lines) = 1
                    /\ \A l \in lines :
                         card.children[l].text
                           = <<"target: ">> \o JSToString(item.target)
               ELSE lines = {}


(***************************************************************************)
(* Vocabulary of the claims about the report renderer.                     *)
(***************************************************************************)
\* Something raised inside the try block of the last renderReport call.
Raised == _renderReport(lastReport).thrown \/ attachThrew

\* The last call returned the exception view.
ReturnedException ==
  /\ calls > 0
  /\ ~returned.thrown
  /\ "lighthouse-exception" \in returned.value.el.cls

\* The children of the container that carry a class.
InContainer(cls) == {i \in 1..Len(container) : cls \in container[i].el.cls}

\* A report with every field the renderer reads, whose audits' details
\* hold nodes of recognized types only.
WellFormed(report) ==
  /\ {"url", "generatedTime", "lighthouseVersion", "runtimeConfig",
      "reportCategories"} \subseteq DOMAIN report
  /\ \A c \in 1..Len(report.reportCategories) :
       \A a \in 1..Len(report.reportCategories[c].audits) :
         LET result == report.reportCategories[c].audits[a].result
         IN "details" \in DOMAIN result =>
              \A n \in AllNodes(result.details) : n.type \in KnownTypes

\* C1: a renderReport call never throws to its caller, and when anything
\* raised inside its try block (while building the report tree or in
\* reportFeatures.attach) the call returns an element classed
\* 'lighthouse-exception' that is a child of the container.
C1_NeverThrows ==
  calls > 0 =>
    /\ ~returned.thrown
    /\ Raised =>
         /\ "lighthouse-exception" \in returned.value.el.cls
         /\ \E i \in 1..Len(container) : container[i] = returned.value

C1_Witness ==
  /\ calls = 2
  /\ WellFormed(lastReport)
  /\ Len(lastReport.reportCategories) = 1
  /\ attachThrew
  /\ ~returned.thrown
  /\ returned.value.el.cls = {"lighthouse-exception"}
  /\ returned.value.el.text = <<"TypeError", ": ", "attach failed">>
  /\ container[Len(container)] = returned.value

\* C2: whenever renderReport returns the exception view, that view is the
\* only child of the container and the container holds no element classed
\* 'lighthouse-report', wherever in the try block the error was raised.
C2_FailureLeavesOnlyException ==
  ReturnedException =>
    /\ container = <<returned.value>>
    /\ InContainer("lighthouse-report") = {}

\* C3: after any sequence of renderReport calls the container holds nothing
\* an earlier call produced, and its content is exactly the element the
\* most recent call returned.
C3_ContainerIsLastReturned ==
  calls > 0 =>
    /\ \A i \in 1..Len(container) : container[i].call = calls
    /\ ~returned.thrown
    /\ container = <<returned.value>>

\* C4: for a well-formed report, with every template in the document and
\* no failure in reportFeatures.attach, renderReport returns an element
\* classed 'lighthouse-report' that is a child of the container and whose
\* children are, in order, the header block, the categories element and the
\* footer block; the categories element holds one category block per entry
\* of report.reportCategories, in order, each made of the category's score
\* element first and then one audit element per entry of category.audits,
\* in order.
C4_ReportStructure ==
  (calls > 0 /\ WellFormed(lastReport) /\ templates = TemplateSelectors
     /\ ~attachThrew) =>
    /\ ~returned.thrown
    /\ "lighthouse-report" \in returned.value.el.cls
    /\ \E i \in 1..Len(container) : container[i] = returned.value
    /\ Len(returned.value.el.children) = 3
    /\ <<returned.value.el.children[1]>>
         = Appended(_renderReportHeader(lastReport).value)
    /\ "lighthouse-categories" \in returned.value.el.children[2].cls
    /\ <<returned.value.el.children[3]>>
         = Appended(_renderReportFooter(lastReport).value)
    /\ Len(returned.value.el.children[2].children)
         = Len(lastReport.reportCategories)
    /\ \A c \in 1..Len(lastReport.reportCategories) :
         \E block \in {returned.value.el.children[2].children[c]} :
         \E category \in {lastReport.reportCategories[c]} :
           /\ "lighthouse-category" \in block.cls
           /\ Len(block.children) = 1 + Len(category.audits)
           /\ "lighthouse-score" \in block.children[1].cls
           /\ <<block.children[1]>> = Appended(_renderCategoryScore(category).value)
           /\ \A a \in 1..Len(category.audits) :
                /\ "lighthouse-audit" \in block.children[1 + a].cls
                /\ Return(block.children[1 + a]) = _renderAudit(category.audits[a])

C4_Witness ==
  /\ calls > 0 /\ WellFormed(lastReport) /\ templates = TemplateSelectors
  /\ ~attachThrew
  /\ Len(lastReport.reportCategories) = 2
  /\ lastReport.reportCategories[1].audits = <<FailAudit>>
  /\ lastReport.reportCategories[2].audits = << >>
  /\ "lighthouse-report" \in returned.value.el.cls
  /\ Len(returned.value.el.children[2].children) = 2
  /\ Len(returned.value.el.children[2].children[1].children) = 2
  /\ Len(returned.value.el.children[2].children[2].children) = 1

(***************************************************************************)
(* Vocabulary of the claims about the score elements.                      *)
(***************************************************************************)
RatingClasses ==
  {"lighthouse-score__value--pass", "lighthouse-score__value--average",
   "lighthouse-score__value--fail"}

\* The score value element of a rendered score.
ValueEl(el) == At(el, querySelector(el, "lighthouse-score__value"))

Scored(kind) == outcome # None /\ ~outcome.thrown /\ arg.kind = kind

\* C11: the score value element of an audit carries exactly one rating
\* class, 'pass' when score >= 75, 'average' when 45 <= score < 75, 'fail'
\* otherwise (scores in tenths), and the class of the audit's scoringMode.
C11_AuditRatingClass ==
  Scored("audit") =>
    /\ ValueEl(outcome.value).cls \cap RatingClasses
         = {IF arg.value.score >= 750 THEN "lighthouse-score__value--pass"
            ELSE IF arg.value.score >= 450 THEN "lighthouse-score__value--average"
            ELSE "lighthouse-score__value--fail"}
    /\ ScoreValueClass(arg.value.result.scoringMode) \in ValueEl(outcome.value).cls
    /\ Cardinality(ValueEl(outcome.value).cls) = 3

C11_Witness ==
  /\ Scored("audit")
  /\ arg.value.score = 749
  /\ arg.value.result.scoringMode = "binary"
  /\ ValueEl(outcome.value).cls
       = {"lighthouse-score__value", "lighthouse-score__value--average",
          "lighthouse-score__value--binary"}

\* C12: the score value element of a category carries the rating class of
\* category.score (pass from 75, average from 45, fail below; scores in
\* tenths) and the class 'numeric', and its text is the score rounded to
\* the nearest integer.
C12_CategoryRatingClass ==
  Scored("category") =>
    /\ ValueEl(outcome.value).cls \cap RatingClasses
         = {IF arg.value.score >= 750 THEN "lighthouse-score__value--pass"
            ELSE IF arg.value.score >= 450 THEN "lighthouse-score__value--average"
            ELSE "lighthouse-score__value--fail"}
    /\ "lighthouse-score__value--numeric" \in ValueEl(outcome.value).cls
    /\ ValueEl(outcome.value).text = Digits((arg.value.score + 5) \div 10)

(***************************************************************************)
(* Vocabulary of the claims about the markdown helper.                     *)
(***************************************************************************)
\* The concatenation of the texts of a sequence of nodes.
RECURSIVE TextOfAll(_)
TextOfAll(nodes) ==
  IF nodes = << >> THEN << >> ELSE Head(nodes).text \o TextOfAll(Tail(nodes))

\* The text with each occurrence of the link pattern replaced by its label:
\* of the parts of the split, every third one (the URLs) left out.
RECURSIVE LabelsForLinks(_)
LabelsForLinks(parts) ==
  IF Len(parts) < 3 THEN parts[1]
  ELSE parts[1] \o parts[2] \o LabelsForLinks(SubSeq(parts, 4, Len(parts)))

IsAnchor(node) == node.tag = "a"

\* C13: the span holds exactly one anchor (target=_blank, rel=noopener,
\* text = label) per occurrence of [label](http(s) URL) in the text, in
\* source order, every other child being a text node, and the span's text
\* content is the text with each occurrence replaced by its label.
C13_OneAnchorPerLink ==
  (outcome # None /\ arg.kind = "markdown") =>
    /\ Len(SelectSeq(outcome.value.children, IsAnchor))
         = (Len(SplitOnLinks(arg.value, 1)) - 1) \div 3
    /\ \A i \in 1..Len(SelectSeq(outcome.value.children, IsAnchor)) :
         \E a \in {SelectSeq(outcome.value.children, IsAnchor)[i]} :
           /\ a.text = SplitOnLinks(arg.value, 1)[3 * i - 1]
           /\ a.attrs.target = <<"_blank">>
           /\ a.attrs.rel = <<"noopener">>
    /\ \A i \in 1..Len(outcome.value.children) :
         outcome.value.children[i].tag \in {"a", "#text"}
    /\ TextOfAll(outcome.value.children)
         = LabelsForLinks(SplitOnLinks(arg.value, 1))

(***************************************************************************)
(* Vocabulary of the claims about the viewer.                              *)
(***************************************************************************)
LacksVersion(json) == "lighthouseVersion" \notin DOMAIN json

\* The JSON values the event l of the viewer v hands to replaceReportHTML.
HandedJson(l, v) ==
  IF l.event = "file" /\ l.input.readable /\ IsJson(l.input.text)
    THEN {l.input.text.value}
  ELSE IF l.event = "paste" /\ IsJson(l.input) THEN {l.input.value}
  ELSE IF l.event = "message" /\ l.input.source = v.opener
            /\ "lhresults" \in DOMAIN l.input.data
    THEN {l.input.data.lhresults}
  ELSE IF l.event = "gist" THEN {l.input}
  ELSE {}

ErrorLogged(v) == \E i \in 1..Len(v.logged) : v.logged[i].level = "error"

\* C14: an event that hands replaceReportHTML JSON lacking lighthouseVersion
\* generates no HTML and leaves the displayed output, the document title and
\* this.json exactly as they were before it.
C14_InvalidJsonNotRendered ==
  [][\A json \in HandedJson(last', viewer') :
       LacksVersion(json) =>
         /\ viewer'.generated = viewer.generated
         /\ viewer'.output = viewer.output
         /\ viewer'.title = viewer.title
         /\ viewer'.json = viewer.json]_vars

\* A viewer that displays a report has just been given a file of JSON with
\* no lighthouseVersion, and has logged the error.
C14_Witness ==
  /\ last # None
  /\ last.event = "file"
  /\ HandedJson(last, viewer) = {NoVersionJson}
  /\ viewer.output = CurrentReport
  /\ viewer.json = CurrentReport
  /\ ErrorLogged(viewer)

\* The input of the event l of the viewer v fails validation: it is content
\* that is not JSON, JSON with no version marker, or a URL of another origin
\* than gist.github.com.
ValidationError(l, v) ==
  \/ \E json \in HandedJson(l, v) : LacksVersion(json)
  \/ l.event = "file" /\ l.input.readable /\ ~IsJson(l.input.text)
  \/ l.event = "paste" /\ l.input = PlainText
  \/ l.event \in {"paste", "input"} /\ IsUrl(l.input)
       /\ l.input.origin # "https://gist.github.com"
  \/ l.event = "input" /\ l.input = PlainText

\* C15: whenever the input of an event fails validation, on any entry path,
\* the viewer has given the logger a message about it.
C15_ValidationErrorLogged ==
  (last # None /\ ValidationError(last, viewer)) => viewer.logged # << >>

\* The handshake has been posted exactly to an opener that exists and is not
\* closed.
HandshakeToOpenOpener ==
  viewer.posted # << >> <=> (viewer.opener # None /\ ~viewer.opener.closed)

\* C17: a message event changes the displayed report or this.json only when
\* its source is the window that opened the viewer and its data carries
\* lhresults, and the {opened: true} handshake is posted only to an opener
\* that exists and is not closed.
C17_OnlyOpenerMessagesRender ==
  [][/\ HandshakeToOpenOpener
     /\ (last'.event = "message"
           /\ (viewer'.output # viewer.output \/ viewer'.json # viewer.json))
          => /\ viewer.opener # None
             /\ last'.input.source = viewer.opener
             /\ "lhresults" \in DOMAIN last'.input.data]_vars

\* C19: while a report is displayed, the share button is disabled exactly
\* when that report is already shared: it was loaded from a gist, or a gist
\* of it has been created since it was loaded.
C19_ShareDisabledIffShared ==
  viewer # None /\ viewer.output # None
    => (viewer.shareDisabled <=> displayedShared)

\* C21: the end of a gist fetch that was started before the load the user
\* started last does not replace the displayed report, this.json or the
\* state of the share button.
C21_LastLoadWins ==
  [][(last'.event = "gist" /\ superseded' < superseded)
       => /\ viewer'.output = viewer.output
          /\ viewer'.json = viewer.json
          /\ viewer'.shareDisabled = viewer.shareDisabled]_vars

\* C20: the end of a gist fetch writes to the key-value store only when the
\* fetched content has been shown by replaceReportHTML; content that fails
\* validation leaves the store as it was and an error is logged.
C20_SavedOnlyAfterShown ==
  [][last'.event = "gist" =>
       /\ LacksVersion(last'.input)
            => viewer'.idb = viewer.idb /\ ErrorLogged(viewer')
       /\ viewer'.idb # viewer.idb
            => /\ viewer'.generated = viewer.generated + 1
               /\ viewer'.json = last'.input
               /\ \E p \in viewer'.idb : p[2].content = last'.input]_vars

\* A fetched gist has been saved, and a later one whose JSON has no
\* lighthouseVersion has been logged as an error and not saved.
C20_Witness ==
  /\ last # None
  /\ last.event = "gist"
  /\ LacksVersion(last.input)
  /\ ErrorLogged(viewer)
  /\ viewer.idb # {}
  /\ \A p \in viewer.idb : ~LacksVersion(p[2].content)

\* C16: _validateReportJson on a report with a lighthouseVersion returns
\* normally, and logs a warning iff the report's major.minor is numerically
\* older than the running version's major.minor, the patch being ignored.
C16_WarnsIffOlder ==
  (outcome # None /\ arg.kind = "version") =>
    /\ ~outcome.thrown
    /\ (outcome.v.logged # << >>)
         <=> \/ arg.report[1] < arg.current[1]
             \/ arg.report[1] = arg.current[1] /\ arg.report[2] < arg.current[2]

====
